---- MODULE Spec2Model ----
(***************************************************************************)
(* Model of netatmo-trmnl.py: a script run by an external scheduler that   *)
(* obtains a Netatmo access token (refresh grant, then password grant),    *)
(* reads the station, reads the forecast and posts a payload to a webhook. *)
(* The only state that survives a run is the token file.                   *)
(***************************************************************************)
EXTENDS Integers, Sequences, FiniteSets, TLC

VARIABLES
  file,            \* content of TOKEN_FILE on disk
  run,             \* number of the current invocation of the script
  pc,              \* position of the current run in the script
  tokens,          \* get_access_token: the record load_tokens returned
  new_tokens,      \* get_access_token: the body of the last 2xx token response
  token,           \* the access token get_access_token returned to __main__
  error,           \* class of the uncaught exception that ended the run
  log,             \* external operations of this run, in order, with outcome
  netatmo,         \* the dictionary get_weather_data returned
  forecast,        \* the dictionary get_forecast3 returned
  merge_variables, \* the payload push_to_terminal built
  stationBody,     \* history: the body the station endpoint answered with
  fileAtStart,     \* history: the file content when the run started
  lastSuccess,     \* history: last 2xx token response carrying access_token
  storageFault     \* history: some save_tokens of this or an earlier run raised

vars == <<file, run, pc, tokens, new_tokens, token, error, log, netatmo,
          forecast, merge_variables, stationBody, fileAtStart, lastSuccess,
          storageFault>>

-----------------------------------------------------------------------------
(* Bounds *)
MaxRuns == 3

-----------------------------------------------------------------------------
(* JSON token records: a key is either present with a value or missing *)
Missing == "<missing>"
AccessTokens == {"a1", "a2"}
RefreshTokens == {"r1", "r2"}
TokenRecords == [access_token : AccessTokens \cup {Missing},
                 refresh_token : RefreshTokens \cup {Missing}]
EmptyRecord == [access_token |-> Missing, refresh_token |-> Missing]
HasKey(d, k) == d[k] # Missing

(* The token file: absent, holding a JSON record, or holding text that is *)
(* not JSON (what an interrupted write leaves behind).                     *)
NoFile == [state |-> "absent", content |-> EmptyRecord]
Truncated == [state |-> "truncated", content |-> EmptyRecord]
Stored(rec) == [state |-> "json", content |-> rec]

NoToken == "<none>"
NoError == "<none>"
(* One external operation: what was sent (a refresh token, a bearer token), *)
(* how it ended, and the token record it carried (read, received, written)  *)
Entry(op, outcome, sent, rec) ==
  [op |-> op, outcome |-> outcome, sent |-> sent, rec |-> rec]

-----------------------------------------------------------------------------
(* Token Store *)

(* load_tokens without the os.path.exists test: open() raises on a missing *)
(* file                                                                    *)
load_tokens_unguarded(f) ==
  IF f.state = "absent"
    THEN [outcome |-> "FileNotFoundError", value |-> EmptyRecord]
  ELSE IF f.state = "json" THEN [outcome |-> "ok", value |-> f.content]
  ELSE [outcome |-> "JSONDecodeError", value |-> EmptyRecord]

(* load_tokens: {} when the file does not exist, json.load otherwise,     *)
(* which raises on text that is not JSON.                                  *)
load_tokens(f) ==
  IF f.state = "absent" THEN [outcome |-> "ok", value |-> EmptyRecord]
  ELSE IF f.state = "json" THEN [outcome |-> "ok", value |-> f.content]
  ELSE [outcome |-> "JSONDecodeError", value |-> EmptyRecord]

(* save_tokens opening the file with mode "a": a second record appended to *)
(* the first leaves text that is not JSON                                  *)
save_tokens_append(f, rec, how) ==
  IF how = "ok" THEN (IF f.state = "absent" THEN Stored(rec) ELSE Truncated)
  ELSE IF how = "open_failed" THEN f
  ELSE Truncated

(* The ways open(TOKEN_FILE, "w") followed by json.dump can end: written;  *)
(* open() raised, the file is untouched; the write raised after open()     *)
(* truncated the file.                                                     *)
SaveOutcomes == {"ok", "open_failed", "write_failed"}

save_tokens(f, rec, how) ==
  IF how = "ok" THEN Stored(rec)
  ELSE IF how = "open_failed" THEN f
  ELSE Truncated

-----------------------------------------------------------------------------
(* Credential Manager: get_access_token *)

(* What requests.post + raise_for_status + response.json() can produce *)
RequestOutcomes == {"ok", "HTTPError", "ConnectionError", "JSONDecodeError"}

(* line 40: if "refresh_token" in tokens *)
TryRefresh(rec) == HasKey(rec, "refresh_token")

(* except Exception: every exception of the try block is swallowed *)
RefreshCaughtException(exc) == TRUE

(* except IOError: requests' exceptions derive from IOError, and so does  *)
(* the OSError of a failed write                                          *)
RefreshCaughtIOError(exc) ==
  exc \in {"HTTPError", "ConnectionError", "JSONDecodeError", "OSError"}

(* no except clause: the HTTPError of the refresh request propagates *)
RefreshCaughtNothing(exc) == FALSE

(* line 53: except requests.HTTPError *)
RefreshCaught(exc) == exc = "HTTPError"

(* The exception new_tokens["access_token"] raises, if any *)
ReturnError(rec) == IF HasKey(rec, "access_token") THEN NoError ELSE "KeyError"

Crash(exc) ==
  /\ pc' = "crashed"
  /\ error' = exc

(* line 37 and the test of line 40 *)
LoadTokens ==
  /\ pc = "get_access_token"
  /\ LET r == load_tokens(file) IN
       /\ log' = Append(log, Entry("load_tokens", r.outcome, "", r.value))
       /\ IF r.outcome = "ok"
            THEN /\ tokens' = r.value
                 /\ pc' = IF TryRefresh(r.value) THEN "refresh" ELSE "password"
                 /\ error' = error
            ELSE /\ tokens' = tokens
                 /\ Crash(r.outcome)
  /\ UNCHANGED <<file, run, new_tokens, token, netatmo, forecast,
                 merge_variables, stationBody, fileAtStart, lastSuccess,
                 storageFault>>

(* The auth endpoint answers a token request: a body only with a 2xx *)
Body(outcome, body) == IF outcome = "ok" THEN body ELSE EmptyRecord
Received(outcome, body) ==
  IF outcome = "ok" /\ HasKey(body, "access_token") THEN body ELSE lastSuccess

(* lines 43-50: the refresh-grant request inside the try block *)
RefreshGrant ==
  /\ pc = "refresh"
  /\ \E outcome \in RequestOutcomes, body \in TokenRecords :
       /\ log' = Append(log, Entry("refresh_grant", outcome,
                                   tokens["refresh_token"], Body(outcome, body)))
       /\ lastSuccess' = Received(outcome, body)
       /\ IF outcome = "ok"
            THEN /\ new_tokens' = body
                 /\ pc' = "refresh_save"
                 /\ error' = error
            ELSE /\ new_tokens' = new_tokens
                 /\ IF RefreshCaught(outcome)
                      THEN pc' = "password" /\ error' = error
                      ELSE Crash(outcome)
  /\ UNCHANGED <<file, run, tokens, token, netatmo, forecast,
                 merge_variables, stationBody, fileAtStart, storageFault>>

(* lines 51-52: save_tokens(new_tokens); return new_tokens["access_token"], *)
(* still inside the try block                                               *)
RefreshPersist ==
  /\ pc = "refresh_save"
  /\ \E how \in SaveOutcomes :
       /\ file' = save_tokens(file, new_tokens, how)
       /\ log' = Append(log, Entry("save_tokens", how, "", new_tokens))
       /\ storageFault' = (storageFault \/ how # "ok")
       /\ LET exc == IF how # "ok" THEN "OSError" ELSE ReturnError(new_tokens) IN
            IF exc = NoError
              THEN /\ token' = new_tokens["access_token"]
                   /\ pc' = "get_weather_data"
                   /\ error' = error
              ELSE /\ token' = token
                   /\ IF RefreshCaught(exc)
                        THEN pc' = "password" /\ error' = error
                        ELSE Crash(exc)
  /\ UNCHANGED <<run, tokens, new_tokens, netatmo, forecast, merge_variables,
                 stationBody, fileAtStart, lastSuccess>>

(* lines 58-67: the password-grant request *)
PasswordGrant ==
  /\ pc = "password"
  /\ \E outcome \in RequestOutcomes, body \in TokenRecords :
       /\ log' = Append(log, Entry("password_grant", outcome, "", Body(outcome, body)))
       /\ lastSuccess' = Received(outcome, body)
       /\ IF outcome = "ok"
            THEN /\ new_tokens' = body
                 /\ pc' = "password_save"
                 /\ error' = error
            ELSE /\ new_tokens' = new_tokens
                 /\ Crash(outcome)
  /\ UNCHANGED <<file, run, tokens, token, netatmo, forecast,
                 merge_variables, stationBody, fileAtStart, storageFault>>

(* lines 68-69: save_tokens(new_tokens); return new_tokens["access_token"] *)
PasswordPersist ==
  /\ pc = "password_save"
  /\ \E how \in SaveOutcomes :
       /\ file' = save_tokens(file, new_tokens, how)
       /\ log' = Append(log, Entry("save_tokens", how, "", new_tokens))
       /\ storageFault' = (storageFault \/ how # "ok")
       /\ LET exc == IF how # "ok" THEN "OSError" ELSE ReturnError(new_tokens) IN
            IF exc = NoError
              THEN /\ token' = new_tokens["access_token"]
                   /\ pc' = "get_weather_data"
                   /\ error' = error
              ELSE /\ token' = token
                   /\ Crash(exc)
  /\ UNCHANGED <<run, tokens, new_tokens, netatmo, forecast, merge_variables,
                 stationBody, fileAtStart, lastSuccess>>

-----------------------------------------------------------------------------
(* Optional values: None, or a present value *)
None == <<>>
Some(v) == <<v>>
Opt(S) == {None} \cup {Some(v) : v \in S}

(* round(): to the nearest integer, ties to the even one; n / d with d > 0 *)
RoundDiv(n, d) ==
  LET q == n \div d
      r == n % d
  IN IF 2 * r < d THEN q
     ELSE IF 2 * r > d THEN q + 1
     ELSE IF q % 2 = 0 THEN q ELSE q + 1

(* Unit conversions. Temperatures are carried in tenths of a degree,       *)
(* lengths in tenths of a millimetre and hundredths of an inch, speeds in  *)
(* km/h and tenths of a mph.                                               *)
c_to_f(c) ==
  IF c # None THEN Some(RoundDiv(c[1] * 18 + 3200, 10)) ELSE None

mm_to_in(mm) ==
  IF mm # None THEN Some(RoundDiv(mm[1] * 393701, 1000000)) ELSE None

kmh_to_mph(kmh) ==
  IF kmh # None THEN Some(RoundDiv(kmh[1] * 621371, 100000)) ELSE None

(* strftime("%-I:%M %p") of the local time of a timestamp; the host's zone *)
(* is taken as UTC-5                                                       *)
format_unix_time(unix_ts) ==
  LET local == unix_ts - 5 * 3600
      h == (local % 86400) \div 3600
      m == (local % 3600) \div 60
  IN [hour |-> IF h % 12 = 0 THEN 12 ELSE h % 12,
      minute |-> m,
      ampm |-> IF h < 12 THEN "AM" ELSE "PM"]

get_air_quality_status(co2) ==
  IF co2 = None THEN "Unknown"
  ELSE IF co2[1] < 800 THEN "Good"
  ELSE IF co2[1] < 1200 THEN "Moderate"
  ELSE "Poor"

-----------------------------------------------------------------------------
(* Station Reader *)

ModuleTypes == {"NAModule1", "NAModule2", "NAModule3"}

(* next((m for m in modules if m["type"] == type), None); the modules of   *)
(* the body are carried by type tag                                        *)
FindModule(modules, type) == modules[type]

(* The dictionary of lines 97-118, or the KeyError of a dashboard_data     *)
(* lookup on a base station or an installed module that reports none       *)
get_weather_data(body) ==
  LET base == body.dashboard_data
      outdoor == FindModule(body.modules, "NAModule1")
      wind == FindModule(body.modules, "NAModule2")
      rain == FindModule(body.modules, "NAModule3")
      Field(m, f) == IF m # None THEN m[1].dashboard_data[1][f] ELSE None
      broken == \/ base = None
                \/ \E m \in {outdoor, wind, rain} :
                     m # None /\ m[1].dashboard_data = None
  IN IF broken THEN [outcome |-> "KeyError", value |-> None]
     ELSE [outcome |-> "ok",
           value |-> Some(
             [indoor_temp_c |-> base[1]["Temperature"],
              indoor_humidity |-> base[1]["Humidity"],
              co2 |-> base[1]["CO2"],
              pressure |-> base[1]["Pressure"],
              noise |-> base[1]["Noise"],
              outdoor_temp_c |-> Field(outdoor, "Temperature"),
              outdoor_humidity |-> Field(outdoor, "Humidity"),
              rain_1h |-> Field(rain, "sum_rain_1"),
              rain_24h |-> Field(rain, "sum_rain_24"),
              wind_strength |-> Field(wind, "WindStrength"),
              gust_strength |-> Field(wind, "GustStrength"),
              wind_angle |-> Field(wind, "WindAngle"),
              gust_angle |-> Field(wind, "GustAngle")])]

-----------------------------------------------------------------------------
(* Forecast Reader *)

(* dict.get(key, default) *)
GetOr(v, default) == IF v # None THEN v ELSE Some(default)

(* lines 139-149; temperatures in tenths of a degree F, rain in tenths of  *)
(* a millimetre, pop in thousandths                                        *)
get_forecast3(today) ==
  [forecast_high |-> Some(RoundDiv(today.temp_max, 10)),
   forecast_low |-> Some(RoundDiv(today.temp_min, 10)),
   forecast_humidity |-> Some(today.humidity),
   forecast_rain_in |-> mm_to_in(GetOr(today.rain, 0)),
   forecast_rain_chance |-> Some(RoundDiv(GetOr(today.pop, 0)[1], 10)),
   sunrise |-> format_unix_time(today.sunrise),
   sunset |-> format_unix_time(today.sunset)]

-----------------------------------------------------------------------------
(* Payload Publisher *)

(* A display string: str(num) followed by text. The em dash U+2014 of the  *)
(* source is written "--" and the degree sign "deg".                      *)
Sentinel == [num |-> None, text |-> "--"]
Text(t) == [num |-> None, text |-> t]

(* safe testing the truth of val instead of "is not None": 0 is falsy *)
safe_truthy(val, suffix) ==
  IF val # None /\ val[1] # 0 THEN [num |-> val, text |-> suffix] ELSE Sentinel

(* line 154: safe = lambda val, suffix="": ... *)
safe(val, suffix) ==
  IF val # None THEN [num |-> val, text |-> suffix] ELSE Sentinel

(* lines 157-189 *)
MergeVariables(data) ==
  [indoor_temp |-> safe(c_to_f(data["indoor_temp_c"]), "degF"),
   outdoor_temp |-> safe(c_to_f(data["outdoor_temp_c"]), "degF"),
   indoor_humidity |-> safe(data["indoor_humidity"], "%"),
   outdoor_humidity |-> safe(data["outdoor_humidity"], "%"),
   co2 |-> safe(data["co2"], " ppm"),
   air_quality |-> Text(get_air_quality_status(data["co2"])),
   pressure |-> safe(data["pressure"], " mbar"),
   noise |-> safe(data["noise"], " dB"),
   rain_1h |-> safe(mm_to_in(data["rain_1h"]), " in"),
   rain_24h |-> safe(mm_to_in(data["rain_24h"]), " in"),
   wind_speed |-> safe(kmh_to_mph(data["wind_strength"]), " mph"),
   gust_speed |-> safe(kmh_to_mph(data["gust_strength"]), " mph"),
   wind_angle |-> safe(data["wind_angle"], "deg"),
   gust_angle |-> safe(data["gust_angle"], "deg"),
   forecast_high |-> safe(data["forecast_high"], "degF"),
   forecast_low |-> safe(data["forecast_low"], "degF"),
   forecast_humidity |-> safe(data["forecast_humidity"], "%"),
   forecast_rain_in |-> safe(data["forecast_rain_in"], " in"),
   forecast_rain_chance |-> safe(data["forecast_rain_chance"], "%"),
   sunrise |-> data["sunrise"],
   sunset |-> data["sunset"],
   message |->
     <<safe(c_to_f(data["outdoor_temp_c"]), "degF"),
       safe(c_to_f(data["indoor_temp_c"]), "degF"),
       safe(data["outdoor_humidity"], "%"),
       safe(data["indoor_humidity"], "%"),
       safe(kmh_to_mph(data["wind_strength"]), " mph"),
       safe(kmh_to_mph(data["gust_strength"]), " mph"),
       safe(mm_to_in(data["rain_1h"]), " in"),
       safe(mm_to_in(data["rain_24h"]), " in")>>]

(* line 201: combined = { **netatmo, **forecast } *)
Combined(n, f) ==
  [k \in DOMAIN n \cup DOMAIN f |-> IF k \in DOMAIN f THEN f[k] ELSE n[k]]

-----------------------------------------------------------------------------
(* What the station and forecast endpoints can answer *)

IndoorDashboards ==
  [Temperature : Opt({0, 220}), Humidity : Opt({0}), CO2 : Opt({0, 800, 1200}),
   Pressure : Opt({0}), Noise : Opt({0})]
OutdoorDashboards == [Temperature : Opt({0, 220}), Humidity : Opt({0})]
WindDashboards ==
  [WindStrength : Opt({0, 10}), GustStrength : Opt({0}),
   WindAngle : Opt({0}), GustAngle : Opt({0})]
RainDashboards == [sum_rain_1 : Opt({0, 1000}), sum_rain_24 : Opt({0})]

(* A module: not installed, installed and unreachable (no dashboard_data), *)
(* or installed with a dashboard                                           *)
Modules(dashboards) ==
  {None} \cup {Some([dashboard_data |-> dd]) : dd \in Opt(dashboards)}

StationBodies ==
  [dashboard_data : Opt(IndoorDashboards),
   modules : [NAModule1 : Modules(OutdoorDashboards),
              NAModule2 : Modules(WindDashboards),
              NAModule3 : Modules(RainDashboards)]]

(* A few of them, for the runs whose subject is the token file *)
StationSamples ==
  LET indoor == [Temperature |-> Some(220), Humidity |-> Some(0),
                 CO2 |-> Some(800), Pressure |-> None, Noise |-> Some(0)]
      outdoor == Some([dashboard_data |->
                   Some([Temperature |-> Some(0), Humidity |-> None])])
      wind == Some([dashboard_data |->
                Some([WindStrength |-> Some(10), GustStrength |-> Some(0),
                      WindAngle |-> None, GustAngle |-> Some(0)])])
      offline == Some([dashboard_data |-> None])
  IN { [dashboard_data |-> Some(indoor),
        modules |-> [NAModule1 |-> None, NAModule2 |-> None,
                     NAModule3 |-> None]],
       [dashboard_data |-> Some(indoor),
        modules |-> [NAModule1 |-> outdoor, NAModule2 |-> wind,
                     NAModule3 |-> None]],
       [dashboard_data |-> Some(indoor),
        modules |-> [NAModule1 |-> outdoor, NAModule2 |-> None,
                     NAModule3 |-> offline]] }

ForecastBodies ==
  { [temp_max |-> 745, temp_min |-> 585, humidity |-> 40, rain |-> None,
     pop |-> None, sunrise |-> 1700047800, sunset |-> 1700085900],
    [temp_max |-> 750, temp_min |-> 0, humidity |-> 0, rain |-> Some(1000),
     pop |-> Some(420), sunrise |-> 1700047800, sunset |-> 1700085900] }

-----------------------------------------------------------------------------
(* __main__ after the token: lines 199-202 *)

(* line 199: get_weather_data(token) *)
GetWeatherData(pool) ==
  /\ pc = "get_weather_data"
  /\ \/ \E exc \in RequestOutcomes \ {"ok"} :
          /\ log' = Append(log, Entry("get_stations", exc, token, EmptyRecord))
          /\ Crash(exc)
          /\ UNCHANGED <<netatmo, stationBody>>
     \/ \E body \in pool :
          LET r == get_weather_data(body) IN
            /\ log' = Append(log, Entry("get_stations", r.outcome, token, EmptyRecord))
            /\ stationBody' = Some(body)
            /\ netatmo' = r.value
            /\ IF r.outcome = "ok"
                 THEN pc' = "get_forecast3" /\ error' = error
                 ELSE Crash(r.outcome)
  /\ UNCHANGED <<file, run, tokens, new_tokens, token, forecast,
                 merge_variables, fileAtStart, lastSuccess, storageFault>>

ReadStation == GetWeatherData(StationSamples)

(* line 200: get_forecast3() *)
GetForecast ==
  /\ pc = "get_forecast3"
  /\ \/ \E exc \in RequestOutcomes \ {"ok"} :
          /\ log' = Append(log, Entry("get_forecast", exc, "", EmptyRecord))
          /\ Crash(exc)
          /\ forecast' = forecast
     \/ \E today \in ForecastBodies :
          /\ log' = Append(log, Entry("get_forecast", "ok", "", EmptyRecord))
          /\ forecast' = Some(get_forecast3(today))
          /\ pc' = "push_to_terminal"
          /\ error' = error
  /\ UNCHANGED <<file, run, tokens, new_tokens, token, netatmo,
                 merge_variables, stationBody, fileAtStart, lastSuccess,
                 storageFault>>

(* push_to_terminal posting a second time when the first POST failed *)
PushToTerminalRetry ==
  /\ pc = "push_to_terminal"
  /\ merge_variables' = Some(MergeVariables(Combined(netatmo[1], forecast[1])))
  /\ \E outcome \in {"ok", "HTTPError", "ConnectionError"} :
       /\ log' = Append(log, Entry("webhook_post", outcome, "", EmptyRecord))
       /\ IF outcome = "ok"
            THEN pc' = "exited" /\ error' = error
            ELSE IF \A i \in DOMAIN log : log[i].op # "webhook_post"
              THEN pc' = pc /\ error' = error
              ELSE Crash(outcome)
  /\ UNCHANGED <<file, run, tokens, new_tokens, token, netatmo, forecast,
                 stationBody, fileAtStart, lastSuccess, storageFault>>

(* lines 201-202: push_to_terminal({ **netatmo, **forecast }) *)
PushToTerminal ==
  /\ pc = "push_to_terminal"
  /\ merge_variables' = Some(MergeVariables(Combined(netatmo[1], forecast[1])))
  /\ \E outcome \in {"ok", "HTTPError", "ConnectionError"} :
       /\ log' = Append(log, Entry("webhook_post", outcome, "", EmptyRecord))
       /\ IF outcome = "ok"
            THEN pc' = "exited" /\ error' = error
            ELSE Crash(outcome)
  /\ UNCHANGED <<file, run, tokens, new_tokens, token, netatmo, forecast,
                 stationBody, fileAtStart, lastSuccess, storageFault>>

(* The external scheduler invokes the script again once the run is over *)
StartRun ==
  /\ pc \in {"exited", "crashed"}
  /\ run < MaxRuns
  /\ run' = run + 1
  /\ pc' = "get_access_token"
  /\ tokens' = EmptyRecord
  /\ new_tokens' = EmptyRecord
  /\ token' = NoToken
  /\ error' = NoError
  /\ log' = <<>>
  /\ netatmo' = None
  /\ forecast' = None
  /\ merge_variables' = None
  /\ stationBody' = None
  /\ fileAtStart' = file
  /\ UNCHANGED <<file, lastSuccess, storageFault>>

-----------------------------------------------------------------------------
Init ==
  /\ file = NoFile
  /\ run = 1
  /\ pc = "get_access_token"
  /\ tokens = EmptyRecord
  /\ new_tokens = EmptyRecord
  /\ token = NoToken
  /\ error = NoError
  /\ log = <<>>
  /\ netatmo = None
  /\ forecast = None
  /\ merge_variables = None
  /\ stationBody = None
  /\ fileAtStart = NoFile
  /\ lastSuccess = EmptyRecord
  /\ storageFault = FALSE

Next ==
  \/ LoadTokens
  \/ RefreshGrant
  \/ RefreshPersist
  \/ PasswordGrant
  \/ PasswordPersist
  \/ ReadStation
  \/ GetForecast
  \/ PushToTerminal
  \/ StartRun

Spec == Init /\ [][Next]_vars

-----------------------------------------------------------------------------
(* The payload over every station body: a first run that obtained its     *)
(* token by password grant, followed through lines 199-202                *)
ReadAnyStation == GetWeatherData(StationBodies)

FirstLogin == [access_token |-> "a1", refresh_token |-> "r1"]

InitPayload ==
  /\ file = Stored(FirstLogin)
  /\ run = 1
  /\ pc = "get_weather_data"
  /\ tokens = EmptyRecord
  /\ new_tokens = FirstLogin
  /\ token = "a1"
  /\ error = NoError
  /\ log = <<Entry("load_tokens", "ok", "", EmptyRecord),
             Entry("password_grant", "ok", "", FirstLogin),
             Entry("save_tokens", "ok", "", FirstLogin)>>
  /\ netatmo = None
  /\ forecast = None
  /\ merge_variables = None
  /\ stationBody = None
  /\ fileAtStart = NoFile
  /\ lastSuccess = FirstLogin
  /\ storageFault = FALSE

NextPayload ==
  \/ ReadAnyStation
  \/ GetForecast
  \/ PushToTerminal

PayloadSpec == InitPayload /\ [][NextPayload]_vars

-----------------------------------------------------------------------------
(* Vocabulary of the properties *)

TokenOps == {"load_tokens", "refresh_grant", "password_grant", "save_tokens"}
MainOps == {"get_stations", "get_forecast", "webhook_post"}
Positions(op) == {i \in DOMAIN log : log[i].op = op}
PositionsIn(ops) == {i \in DOMAIN log : log[i].op \in ops}
AuthRequests ==
  SelectSeq(log, LAMBDA e : e.op \in {"refresh_grant", "password_grant"})
MainSteps == SelectSeq(log, LAMBDA e : e.op \in MainOps)

InAcquisition ==
  pc \in {"get_access_token", "refresh", "refresh_save", "password",
          "password_save"}
StartedWithRefreshToken ==
  fileAtStart.state = "json" /\ HasKey(fileAtStart.content, "refresh_token")
StartedWithoutRefreshToken ==
  \/ fileAtStart.state = "absent"
  \/ fileAtStart.state = "json" /\ ~HasKey(fileAtStart.content, "refresh_token")
SaveFaultThisRun == \E i \in Positions("save_tokens") : log[i].outcome # "ok"
Granted(e) == e.outcome = "ok" /\ HasKey(e.rec, "access_token")
Recovered(e) == e.op = "refresh_grant" /\ e.outcome = "HTTPError"

(* C1: in a run that starts with a stored refresh_token and whose refresh  *)
(* request is answered 2xx with an access_token, no password-grant request *)
(* is sent at any point of the run, and once get_access_token is over      *)
(* (the write of the record not having faulted) the token returned is the  *)
(* refresh response's access_token and the file holds the refresh response *)
C1_RefreshSuccess ==
  StartedWithRefreshToken =>
    \A i \in Positions("refresh_grant") :
      Granted(log[i]) =>
        /\ Positions("password_grant") = {}
        /\ (~InAcquisition /\ ~SaveFaultThisRun) =>
             /\ token = log[i].rec["access_token"]
             /\ file = Stored(log[i].rec)

C1_Witness ==
  /\ pc = "exited"
  /\ StartedWithRefreshToken
  /\ \E i \in Positions("refresh_grant") :
       /\ Granted(log[i])
       /\ log[i].rec # fileAtStart.content
       /\ file = Stored(log[i].rec)
       /\ token = log[i].rec["access_token"]

(* C2: in a run that starts with a stored refresh_token and whose refresh  *)
(* request ends in an HTTP error status, the run goes on to the password   *)
(* grant instead of failing; if that is answered 2xx with an access_token  *)
(* the run goes on to persist it, and once get_access_token is over (the   *)
(* write not having faulted) the token returned is the password response's *)
(* access_token and the file holds the password response                   *)
C2_Fallback ==
  StartedWithRefreshToken =>
    \A i \in Positions("refresh_grant") :
      log[i].outcome = "HTTPError" =>
        /\ i = Len(log) => (pc = "password" /\ error = NoError)
        /\ \A j \in Positions("password_grant") :
             Granted(log[j]) =>
               /\ j = Len(log) => (pc = "password_save" /\ error = NoError)
               /\ (~InAcquisition /\ ~SaveFaultThisRun) =>
                    /\ token = log[j].rec["access_token"]
                    /\ file = Stored(log[j].rec)

C2_Witness ==
  /\ ~InAcquisition
  /\ StartedWithRefreshToken
  /\ \E i \in Positions("refresh_grant"), j \in Positions("password_grant") :
       /\ log[i].outcome = "HTTPError"
       /\ Granted(log[j])
       /\ token = log[j].rec["access_token"]
       /\ file = Stored(log[j].rec)
       /\ file # fileAtStart

(* C3: in a run that starts with no token file, or with a stored record    *)
(* that has no refresh_token, load_tokens does not fail, no refresh-grant  *)
(* request is sent, and after the load the run is either about to send the *)
(* password grant or has sent exactly one auth request, a password grant   *)
C3_FirstRun ==
  StartedWithoutRefreshToken =>
    /\ log # <<>> => (log[1].op = "load_tokens" /\ log[1].outcome = "ok")
    /\ Positions("refresh_grant") = {}
    /\ pc # "get_access_token" =>
         \/ pc = "password" /\ AuthRequests = <<>>
         \/ Len(AuthRequests) = 1 /\ AuthRequests[1].op = "password_grant"

C3_Witness ==
  /\ fileAtStart.state = "json"
  /\ ~HasKey(fileAtStart.content, "refresh_token")
  /\ Len(AuthRequests) = 1
  /\ AuthRequests[1].op = "password_grant"

(* C4: a run sends at most one refresh-grant and at most one password-     *)
(* grant request; when it sends both, the refresh comes first and was not  *)
(* answered 2xx (so no refresh follows a password grant)                   *)
C4_NoRetry ==
  /\ Cardinality(Positions("refresh_grant")) <= 1
  /\ Cardinality(Positions("password_grant")) <= 1
  /\ Len(AuthRequests) = 2 =>
       /\ AuthRequests[1].op = "refresh_grant"
       /\ AuthRequests[2].op = "password_grant"
       /\ AuthRequests[1].outcome # "ok"

C4_Witness ==
  /\ Len(AuthRequests) = 2
  /\ AuthRequests[1].outcome = "HTTPError"
  /\ AuthRequests[2].op = "password_grant"

(* C5: a failed operation of token acquisition, other than a refresh-grant *)
(* request answered with an HTTP error status, is the last operation of    *)
(* the run: the run has crashed and no access token was returned           *)
C5_OnlyFallback ==
  \A i \in PositionsIn(TokenOps) :
    (log[i].outcome # "ok" /\ ~Recovered(log[i])) =>
      /\ i = Len(log)
      /\ pc = "crashed"
      /\ error # NoError
      /\ token = NoToken

C5_Witness ==
  /\ pc = "crashed"
  /\ Len(log) = 3
  /\ log[2].op = "refresh_grant" /\ log[2].outcome = "ok"
  /\ log[3].op = "save_tokens" /\ log[3].outcome # "ok"

(* C7: the steps after the token happen in the order station, forecast,    *)
(* webhook, each at most once and each only after the one before it        *)
(* succeeded; the station is read only with the token get_access_token     *)
(* returned, after every operation of token acquisition; and the webhook   *)
(* POST carries a payload built from a station and a forecast reading      *)
C7_Sequence ==
  LET order == <<"get_stations", "get_forecast", "webhook_post">> IN
    /\ Len(MainSteps) <= 3
    /\ \A k \in DOMAIN MainSteps :
         /\ MainSteps[k].op = order[k]
         /\ k < Len(MainSteps) => MainSteps[k].outcome = "ok"
    /\ MainSteps # <<>> =>
         /\ token # NoToken
         /\ MainSteps[1].sent = token
    /\ \A i \in PositionsIn(TokenOps), j \in PositionsIn(MainOps) : i < j
    /\ \A j \in PositionsIn(MainOps) :
         log[j].outcome # "ok" => (j = Len(log) /\ pc = "crashed")
    /\ Positions("webhook_post") # {} =>
         (netatmo # None /\ forecast # None /\ merge_variables # None)

C7_Witness ==
  /\ pc = "exited"
  /\ Len(MainSteps) = 3
  /\ MainSteps[3].op = "webhook_post"

(* C8: once get_access_token has started, the log of the run holds exactly *)
(* one load_tokens, as its first operation, and at most one save_tokens,   *)
(* before any station, forecast or webhook operation; in every state of    *)
(* the run the file is what that one write made of the file the run found  *)
FirstSave == CHOOSE i \in Positions("save_tokens") :
               \A j \in Positions("save_tokens") : i <= j
C8_FileAccess ==
  /\ pc = "get_access_token" => log = <<>>
  /\ pc # "get_access_token" => Positions("load_tokens") = {1}
  /\ Cardinality(Positions("save_tokens")) <= 1
  /\ \A i \in Positions("save_tokens"), j \in PositionsIn(MainOps) : i < j
  /\ file = IF Positions("save_tokens") = {} THEN fileAtStart
            ELSE IF log[FirstSave].outcome = "ok" THEN Stored(log[FirstSave].rec)
            ELSE IF log[FirstSave].outcome = "open_failed" THEN fileAtStart
            ELSE Truncated

C8_Witness ==
  /\ pc = "exited"
  /\ Len(AuthRequests) = 2
  /\ Cardinality(Positions("load_tokens")) = 1
  /\ Cardinality(Positions("save_tokens")) = 1
  /\ file # fileAtStart

(* C6, as claimed, over the histories in which no write of the file ever   *)
(* faulted: after every run that has received a 2xx token response with an *)
(* access_token, the file holds the most recent such response              *)
C6_LastResponse ==
  (~storageFault /\ pc \in {"exited", "crashed"} /\ lastSuccess # EmptyRecord)
    => file = Stored(lastSuccess)

(* C10, as claimed, over the runs whose write of the file did not fault:   *)
(* once get_access_token is over, if the file was written then a token was *)
(* returned and it is the access_token of the record in the file, and if   *)
(* no token was returned the file is the one the run started with          *)
C10_WriteOnlyOnSuccess ==
  (~InAcquisition /\ ~SaveFaultThisRun) =>
    /\ Positions("save_tokens") # {} =>
         (token # NoToken /\ token = file.content["access_token"])
    /\ token = NoToken => file = fileAtStart

-----------------------------------------------------------------------------
(* The payload against the station body it was built from *)

(* The module and dashboard key each display field is read from *)
SourceOf ==
  [indoor_temp |-> <<"base", "Temperature">>,
   indoor_humidity |-> <<"base", "Humidity">>,
   co2 |-> <<"base", "CO2">>,
   air_quality |-> <<"base", "CO2">>,
   pressure |-> <<"base", "Pressure">>,
   noise |-> <<"base", "Noise">>,
   outdoor_temp |-> <<"NAModule1", "Temperature">>,
   outdoor_humidity |-> <<"NAModule1", "Humidity">>,
   wind_speed |-> <<"NAModule2", "WindStrength">>,
   gust_speed |-> <<"NAModule2", "GustStrength">>,
   wind_angle |-> <<"NAModule2", "WindAngle">>,
   gust_angle |-> <<"NAModule2", "GustAngle">>,
   rain_1h |-> <<"NAModule3", "sum_rain_1">>,
   rain_24h |-> <<"NAModule3", "sum_rain_24">>]
SuffixOf ==
  [indoor_temp |-> "degF", indoor_humidity |-> "%", co2 |-> " ppm",
   pressure |-> " mbar", noise |-> " dB", outdoor_temp |-> "degF",
   outdoor_humidity |-> "%", wind_speed |-> " mph", gust_speed |-> " mph",
   wind_angle |-> "deg", gust_angle |-> "deg", rain_1h |-> " in",
   rain_24h |-> " in"]
IndoorFields == {"indoor_temp", "indoor_humidity", "co2", "pressure", "noise"}
SuffixedFields == DOMAIN SuffixOf
StationFields == DOMAIN SourceOf

Upstream(body, d) ==
  LET src == SourceOf[d] IN
    IF src[1] = "base" THEN body.dashboard_data[1][src[2]]
    ELSE IF body.modules[src[1]] = None THEN None
    ELSE body.modules[src[1]][1].dashboard_data[1][src[2]]

(* C9, as claimed: every display field built from a station field is the   *)
(* sentinel exactly when its upstream field is absent                      *)
C9_SentinelIffAbsent ==
  merge_variables # None =>
    \A d \in StationFields :
      merge_variables[1][d] = Sentinel <=> Upstream(stationBody[1], d) = None

(* C9, amended: every display field formatted by safe from a station field *)
(* is the sentinel when its own upstream field is absent and the value     *)
(* followed by its unit otherwise, whatever the other fields are; and      *)
(* air_quality is "Unknown", never the sentinel, exactly when CO2 is absent *)
C9_FieldsIndependent ==
  merge_variables # None =>
    /\ \A d \in SuffixedFields :
         LET u == Upstream(stationBody[1], d)
             v == merge_variables[1][d]
         IN /\ u = None => v = Sentinel
            /\ u # None => (v.num # None /\ v.text = SuffixOf[d])
    /\ merge_variables[1]["air_quality"] # Sentinel
    /\ merge_variables[1]["air_quality"] = Text("Unknown")
         <=> Upstream(stationBody[1], "air_quality") = None

C9_Witness ==
  /\ merge_variables # None
  /\ \A t \in ModuleTypes : stationBody[1].modules[t] = None
  /\ \A d \in IndoorFields : Upstream(stationBody[1], d) # None
  /\ Upstream(stationBody[1], "indoor_temp") = Some(0)
  /\ Upstream(stationBody[1], "noise") = Some(0)
  /\ merge_variables[1]["indoor_temp"] = [num |-> Some(320), text |-> "degF"]
  /\ merge_variables[1]["noise"] = [num |-> Some(0), text |-> " dB"]
  /\ merge_variables[1]["outdoor_temp"] = Sentinel
  /\ merge_variables[1]["rain_1h"] = Sentinel

====
